---- MODULE Spec2Model ----
(***************************************************************************)
(* Model of src/single_global_task_scheduler.py: SingleGlobalTaskRunner,   *)
(* the keyed singleton periodic runner.                                    *)
(*                                                                         *)
(* Threads of the program:                                                 *)
(*   - caller threads, which run SingleGlobalTaskRunner(key=..., ...)      *)
(*     (__new__ then __init__), remove() and remove_all();                 *)
(*   - one loop thread per threading.Thread started at line 34, running    *)
(*     _task_runner.                                                       *)
(* Each statement that reads or writes shared state is one step, so that   *)
(* the interleavings the interpreter allows between statements are the     *)
(* interleavings of the model.                                             *)
(*                                                                         *)
(* Time is counted in whole seconds: time.sleep(n) takes n SleepTick       *)
(* steps.                                                                  *)
(***************************************************************************)
EXTENDS Integers, Sequences, FiniteSets, TLC

\* ------------------------------------------------------------------ bounds
MaxOps == 3          \* calls of the API (acquire, remove, remove_all) in one run

\* --------------------------------------------------------------- constants
DefaultSeconds == 1  \* seconds = param.Number(default=1.0, ...)
MinMillis == 1       \* bounds=(0.001, None): at least one millisecond

None == "None"
NoObject == 0        \* no object / attribute not set
Callers == {"c1", "c2"}
SeqCallers == {"c1"}
Keys == {"", "k"}

\* The arguments <<key, worker, seconds>> of the acquire calls; the worker
\* "absent" is a call that passes no worker=.
SeqArgs ==
    {<<"k", "w1", 1>>, <<"k", "w2", 2>>, <<"k", "absent", 1>>, <<"k", "w1", 0>>,
     <<"", "w1", 1>>}
ConcArgs == {<<"k", "w1", 1>>, <<"k", "w2", 2>>}
LiveArgs == {<<"k", "w1", 1>>, <<"", "absent", 2>>}
OneArgs == {<<"k", "w1", 1>>}

VARIABLES
    cache,    \* pn.state.cache[_single_global_task_runner_key]: [gen, items]
    obj,      \* the SingleGlobalTaskRunner objects, by identity 1..Len(obj)
    thr,      \* the threading.Thread objects started, by identity 1..Len(thr)
    call,     \* per caller thread: position and locals of the call in progress
    held,     \* objects some caller holds a reference to (returned by acquire)
    removed,  \* history: objects on which a remove() call has returned
    evicted,  \* history: keys whose object a remove() that returned has evicted,
              \*          no acquire of the key having been called since
    nOps      \* API calls started so far

vars == <<cache, obj, thr, call, held, removed, evicted, nOps>>

\* ------------------------------------------------------- the registry dict
\* dict.get(key, None) on the insertion-ordered dict `items` of <<key, object>>
Lookup(items, k) ==
    IF \E i \in 1..Len(items) : items[i][1] = k
    THEN items[CHOOSE i \in 1..Len(items) : items[i][1] = k][2]
    ELSE NoObject

\* task_runners[key] = task_runner: an existing key keeps its place
DictSet(items, k, h) ==
    IF \E i \in 1..Len(items) : items[i][1] = k
    THEN [i \in 1..Len(items) |-> IF items[i][1] = k THEN <<k, h>> ELSE items[i]]
    ELSE Append(items, <<k, h>>)

\* if self.key in cache: del cache[self.key]
DictDel(items, k) == SelectSeq(items, LAMBDA p : p[1] # k)

\* list(cache.values())
DictValues(items) == [i \in 1..Len(items) |-> items[i][2]]

\* ------------------------------------------------------------- the objects
\* An object as object.__new__ leaves it: every parameter reads as its class
\* default, and the attributes _thread and _stop_thread are not set.
NewObject ==
    [key |-> "", worker |-> None, seconds |-> DefaultSeconds,
     value |-> None, exception |-> None,
     stop_thread |-> FALSE, thread |-> NoObject]

\* bounds=(0.001, None) of `seconds`, the argument being in whole seconds
ValidSeconds(s) == s * 1000 >= MinMillis

\* threading.Thread.is_alive()
IsAlive(t) == t # NoObject /\ thr[t].pc # "done"

\* Parameterized.__init__(key=key, worker=..., seconds=...) as line 29 calls
\* it, on a new object or on the registered one: param first gives every
\* constant parameter (value, exception, key) a fresh copy of its default,
\* then sets the keyword arguments in order, validating each; a worker that is
\* not passed is not touched; an invalid `seconds` raises after key and worker
\* were set.
SuperInit(o, k, w, s) ==
    LET reset == [o EXCEPT !.value = None, !.exception = None, !.key = ""]
        keyed == [reset EXCEPT !.key = k]
        worked == IF w = "absent" THEN keyed ELSE [keyed EXCEPT !.worker = w]
    IN  IF ValidSeconds(s) THEN [worked EXCEPT !.seconds = s] ELSE worked

\* what a call of self.worker() can do: return a value or raise
WorkerReturns(w) ==
    CASE w = "w1" -> {"v1"}
      [] w = "w2" -> {"v2"}
      [] OTHER -> {}
WorkerRaises(w) ==
    CASE w = "w1" -> {"e1"}
      [] w = "w2" -> {"e2"}
      [] OTHER -> {"TypeError"}      \* None() is a TypeError

\* ------------------------------------------------------------ the callers
IdleCall ==
    [pc |-> "idle", op |-> "none", key |-> "", worker |-> "absent", seconds |-> 0,
     self |-> NoObject, task_runners |-> 0, joined |-> NoObject, todo |-> <<>>,
     raised |-> None, created |-> FALSE,
     \* history, taken when the call begins
     preEntry |-> NoObject,   \* the object registered under the key
     preLive |-> NoObject,    \* the same, when its loop thread is alive
     preLoops |-> 0,          \* the loop threads running for the key
     preThreads |-> 0,        \* the threads started so far
     preEvicted |-> FALSE,    \* the key is in `evicted`
     preAll |-> {}]           \* the objects registered (remove_all)

\* the loop threads running for key k
Loops(k) == {t \in 1..Len(thr) : IsAlive(t) /\ obj[thr[t].h].key = k}

\* the object registered under k when its loop is alive, else NoObject
LiveHandle(k) ==
    LET h == Lookup(cache.items, k)
    IN  IF h # NoObject /\ IsAlive(obj[h].thread) THEN h ELSE NoObject

Init ==
    /\ cache = [gen |-> 0, items |-> <<>>]
    /\ obj = <<>>
    /\ thr = <<>>
    /\ call = [c \in Callers |-> IdleCall]
    /\ held = {}
    /\ removed = {}
    /\ evicted = {}
    /\ nOps = 0

\* SingleGlobalTaskRunner(key=k, worker=w, seconds=s) is called
CallAcquire(c, k, w, s, limit) ==
    /\ call[c].pc = "idle"
    /\ nOps < limit
    /\ call' = [call EXCEPT ![c] =
                  [IdleCall EXCEPT !.pc = "new_get", !.op = "acquire", !.key = k,
                                   !.worker = w, !.seconds = s,
                                   !.preEntry = Lookup(cache.items, k),
                                   !.preLive = LiveHandle(k),
                                   !.preLoops = Cardinality(Loops(k)),
                                   !.preThreads = Len(thr),
                                   !.preEvicted = (k \in evicted)]]
    /\ evicted' = evicted \ {k}
    /\ nOps' = nOps + 1
    /\ UNCHANGED <<cache, obj, thr, held, removed>>

\* __new__, lines 38-41: fetch the dict and look the key up
NewGet(c) ==
    /\ call[c].pc = "new_get"
    /\ call' = [call EXCEPT ![c].pc = "new_set",
                            ![c].task_runners = cache.gen,
                            ![c].self = Lookup(cache.items, call[c].key)]
    /\ UNCHANGED <<cache, obj, thr, held, removed, evicted, nOps>>

\* __new__, lines 43-47: create and register when the lookup found nothing
NewSet(c) ==
    /\ call[c].pc = "new_set"
    /\ IF call[c].self = NoObject
       THEN /\ obj' = Append(obj, NewObject)
            /\ cache' = IF call[c].task_runners = cache.gen
                        THEN [cache EXCEPT !.items = DictSet(@, call[c].key, Len(obj) + 1)]
                        ELSE cache   \* the dict fetched at line 38 was replaced at line 84
            /\ call' = [call EXCEPT ![c].pc = "init_super", ![c].self = Len(obj) + 1,
                                    ![c].created = TRUE]
       ELSE /\ call' = [call EXCEPT ![c].pc = "init_super"]
            /\ UNCHANGED <<cache, obj>>
    /\ UNCHANGED <<thr, held, removed, evicted, nOps>>

\* __init__, line 29
InitSuper(c) ==
    /\ call[c].pc = "init_super"
    /\ obj' = [obj EXCEPT ![call[c].self] =
                 SuperInit(@, call[c].key, call[c].worker, call[c].seconds)]
    /\ call' = IF ValidSeconds(call[c].seconds)
               THEN [call EXCEPT ![c].pc = "init_check"]
               ELSE [call EXCEPT ![c].pc = "returned", ![c].raised = "ValueError"]
    /\ UNCHANGED <<cache, thr, held, removed, evicted, nOps>>

\* InitCheck without the guard of line 30: every __init__ goes on to line 32
InitCheckNoGuard(c) ==
    /\ call[c].pc = "init_check"
    /\ call' = [call EXCEPT ![c].pc = "init_start"]
    /\ UNCHANGED <<cache, obj, thr, held, removed, evicted, nOps>>

\* __init__, lines 30-31
InitCheck(c) ==
    /\ call[c].pc = "init_check"
    /\ IF obj[call[c].self].thread # NoObject /\ IsAlive(obj[call[c].self].thread)
       THEN /\ call' = [call EXCEPT ![c].pc = "returned"]
            /\ held' = held \cup {call[c].self}
       ELSE /\ call' = [call EXCEPT ![c].pc = "init_start"]
            /\ UNCHANGED held
    /\ UNCHANGED <<cache, obj, thr, removed, evicted, nOps>>

\* the thread object line 33 creates and line 34 starts
NewThread(h) ==
    [h |-> h, pc |-> "while", result |-> None, remaining |-> 0,
     before |-> None,    \* history: self.value when the worker was last called
     lateCall |-> FALSE, \* history: the worker was called with the stop flag set
     latePub |-> FALSE]  \* history: a cycle's writes ended with the stop flag set

\* __init__, lines 32-35
InitStart(c) ==
    /\ call[c].pc = "init_start"
    /\ thr' = Append(thr, NewThread(call[c].self))
    /\ obj' = [obj EXCEPT ![call[c].self].stop_thread = FALSE,
                          ![call[c].self].thread = Len(thr) + 1]
    /\ call' = [call EXCEPT ![c].pc = "returned"]
    /\ held' = held \cup {call[c].self}
    /\ UNCHANGED <<cache, removed, evicted, nOps>>

\* the call is over: the caller has its result (or the exception)
Return(c) ==
    /\ call[c].pc = "returned"
    /\ call' = [call EXCEPT ![c] = IdleCall]
    /\ UNCHANGED <<cache, obj, thr, held, removed, evicted, nOps>>

\* handle.remove() is called on an object the caller holds
CallRemove(c, h, limit) ==
    /\ call[c].pc = "idle"
    /\ nOps < limit
    /\ h \in held
    /\ call' = [call EXCEPT ![c] = [IdleCall EXCEPT !.pc = "rm_stop", !.op = "remove",
                                                     !.self = h]]
    /\ nOps' = nOps + 1
    /\ UNCHANGED <<cache, obj, thr, held, removed, evicted>>

\* RmStop without line 71: the stop flag is never set
RmStopNoFlag(c) ==
    /\ call[c].pc = "rm_stop"
    /\ call' = [call EXCEPT ![c].pc = "rm_join"]
    /\ UNCHANGED <<cache, obj, thr, held, removed, evicted, nOps>>

\* remove, lines 70-71
RmStop(c) ==
    /\ call[c].pc = "rm_stop"
    /\ obj' = [obj EXCEPT ![call[c].self].stop_thread = TRUE]
    /\ call' = [call EXCEPT ![c].pc = "rm_join"]
    /\ UNCHANGED <<cache, thr, held, removed, evicted, nOps>>

\* remove, line 72: self._thread is read (AttributeError when __init__ never
\* got to line 33), then join() blocks on that thread
RmJoin(c) ==
    /\ call[c].pc = "rm_join"
    /\ call' = IF obj[call[c].self].thread = NoObject
               THEN [call EXCEPT ![c].pc = "returned", ![c].raised = "AttributeError"]
               ELSE [call EXCEPT ![c].pc = "rm_wait",
                                 ![c].joined = obj[call[c].self].thread]
    /\ UNCHANGED <<cache, obj, thr, held, removed, evicted, nOps>>

\* RmWait without the join: remove goes on while the loop thread still runs
RmWaitNoJoin(c) ==
    /\ call[c].pc = "rm_wait"
    /\ call' = [call EXCEPT ![c].pc = "rm_del"]
    /\ UNCHANGED <<cache, obj, thr, held, removed, evicted, nOps>>

\* remove, line 72: join() returns once the thread has exited
RmWait(c) ==
    /\ call[c].pc = "rm_wait"
    /\ ~IsAlive(call[c].joined)
    /\ call' = [call EXCEPT ![c].pc = "rm_del"]
    /\ UNCHANGED <<cache, obj, thr, held, removed, evicted, nOps>>

\* RmDel without lines 75-76: the registry entry is kept
RmDelKeepsEntry(c) ==
    /\ call[c].pc = "rm_del"
    /\ removed' = removed \cup {call[c].self}
    /\ evicted' = evicted \cup {obj[call[c].self].key}
    /\ call' = IF call[c].op = "remove"
               THEN [call EXCEPT ![c].pc = "returned"]
               ELSE IF call[c].todo = <<>>
                    THEN [call EXCEPT ![c].pc = "ra_clear"]
                    ELSE [call EXCEPT ![c].pc = "rm_stop",
                                      ![c].self = Head(call[c].todo),
                                      ![c].todo = Tail(call[c].todo)]
    /\ UNCHANGED <<cache, obj, thr, held, nOps>>

\* remove, lines 74-77; inside remove_all the for loop of line 82 goes on
RmDel(c) ==
    /\ call[c].pc = "rm_del"
    /\ cache' = [cache EXCEPT !.items = DictDel(@, obj[call[c].self].key)]
    /\ removed' = removed \cup {call[c].self}
    /\ evicted' = evicted \cup {obj[call[c].self].key}
    /\ call' = IF call[c].op = "remove"
               THEN [call EXCEPT ![c].pc = "returned"]
               ELSE IF call[c].todo = <<>>
                    THEN [call EXCEPT ![c].pc = "ra_clear"]
                    ELSE [call EXCEPT ![c].pc = "rm_stop",
                                      ![c].self = Head(call[c].todo),
                                      ![c].todo = Tail(call[c].todo)]
    /\ UNCHANGED <<obj, thr, held, nOps>>

\* SingleGlobalTaskRunner.remove_all() is called
CallRemoveAll(c, limit) ==
    /\ call[c].pc = "idle"
    /\ nOps < limit
    /\ call' = [call EXCEPT ![c] =
                  [IdleCall EXCEPT !.pc = "ra_list", !.op = "remove_all",
                                   !.preThreads = Len(thr),
                                   !.preAll = {cache.items[i][2] : i \in 1..Len(cache.items)}]]
    /\ nOps' = nOps + 1
    /\ UNCHANGED <<cache, obj, thr, held, removed, evicted>>

\* RaList stopping only the first registered object
RaListFirstOnly(c) ==
    /\ call[c].pc = "ra_list"
    /\ LET gtws == DictValues(cache.items)
       IN  call' = IF gtws = <<>>
                   THEN [call EXCEPT ![c].pc = "ra_clear"]
                   ELSE [call EXCEPT ![c].pc = "rm_stop", ![c].self = Head(gtws)]
    /\ UNCHANGED <<cache, obj, thr, held, removed, evicted, nOps>>

\* remove_all, line 82: the list of the registered objects, in dict order
RaList(c) ==
    /\ call[c].pc = "ra_list"
    /\ LET gtws == DictValues(cache.items)
       IN  call' = IF gtws = <<>>
                   THEN [call EXCEPT ![c].pc = "ra_clear"]
                   ELSE [call EXCEPT ![c].pc = "rm_stop", ![c].self = Head(gtws),
                                     ![c].todo = Tail(gtws)]
    /\ UNCHANGED <<cache, obj, thr, held, removed, evicted, nOps>>

\* remove_all, line 84: a new, empty dict replaces the registry
RaClear(c) ==
    /\ call[c].pc = "ra_clear"
    /\ cache' = [gen |-> cache.gen + 1, items |-> <<>>]
    /\ call' = [call EXCEPT ![c].pc = "returned"]
    /\ UNCHANGED <<obj, thr, held, removed, evicted, nOps>>

\* ------------------------------------------------------- the loop threads
\* LoopWhile without the test of line 53: the loop goes on whatever the flag
LoopWhileIgnoresStop(t) ==
    /\ thr[t].pc = "while"
    /\ thr' = [thr EXCEPT ![t].pc = "work"]
    /\ UNCHANGED <<cache, obj, call, held, removed, evicted, nOps>>

\* _task_runner, line 53 (and line 66 when the flag is set)
LoopWhile(t) ==
    /\ thr[t].pc = "while"
    /\ thr' = IF obj[thr[t].h].stop_thread
              THEN [thr EXCEPT ![t].pc = "done", ![t].lateCall = FALSE, ![t].latePub = FALSE]
              ELSE [thr EXCEPT ![t].pc = "work"]
    /\ UNCHANGED <<cache, obj, call, held, removed, evicted, nOps>>

\* _task_runner, line 55: self.worker is read and called; it returns or raises
LoopWork(t) ==
    /\ thr[t].pc = "work"
    /\ \/ \E v \in WorkerReturns(obj[thr[t].h].worker) :
            thr' = [thr EXCEPT ![t].pc = "set_value", ![t].result = v,
                               ![t].lateCall = @ \/ obj[thr[t].h].stop_thread]
       \/ \E e \in WorkerRaises(obj[thr[t].h].worker) :
            thr' = [thr EXCEPT ![t].pc = "set_exception", ![t].result = e,
                               ![t].before = obj[thr[t].h].value,
                               ![t].lateCall = @ \/ obj[thr[t].h].stop_thread]
    /\ UNCHANGED <<cache, obj, call, held, removed, evicted, nOps>>

\* _task_runner, line 57
LoopSetValue(t) ==
    /\ thr[t].pc = "set_value"
    /\ obj' = [obj EXCEPT ![thr[t].h].value = thr[t].result]
    /\ thr' = [thr EXCEPT ![t].pc = "clear_exception"]
    /\ UNCHANGED <<cache, call, held, removed, evicted, nOps>>

\* _task_runner, line 58
LoopClearException(t) ==
    /\ thr[t].pc = "clear_exception"
    /\ obj' = [obj EXCEPT ![thr[t].h].exception = None]
    /\ thr' = [thr EXCEPT ![t].pc = "if_sleep", ![t].result = None,
                           ![t].latePub = @ \/ obj[thr[t].h].stop_thread]
    /\ UNCHANGED <<cache, call, held, removed, evicted, nOps>>

\* LoopSetException without the except clause: the exception ends the thread
LoopDiesOnException(t) ==
    /\ thr[t].pc = "set_exception"
    /\ thr' = [thr EXCEPT ![t].pc = "done", ![t].result = None, ![t].before = None,
                           ![t].lateCall = FALSE, ![t].latePub = FALSE]
    /\ UNCHANGED <<cache, obj, call, held, removed, evicted, nOps>>

\* _task_runner, lines 59-61
LoopSetException(t) ==
    /\ thr[t].pc = "set_exception"
    /\ obj' = [obj EXCEPT ![thr[t].h].exception = thr[t].result]
    /\ thr' = [thr EXCEPT ![t].pc = "if_sleep", ![t].result = None, ![t].before = None,
                           ![t].latePub = @ \/ obj[thr[t].h].stop_thread]
    /\ UNCHANGED <<cache, call, held, removed, evicted, nOps>>

\* _task_runner, lines 62-64: time.sleep(self.seconds) begins unless the flag is set
LoopIfSleep(t) ==
    /\ thr[t].pc = "if_sleep"
    /\ thr' = IF obj[thr[t].h].stop_thread
              THEN [thr EXCEPT ![t].pc = "while"]
              ELSE [thr EXCEPT ![t].pc = "sleep", ![t].remaining = obj[thr[t].h].seconds]
    /\ UNCHANGED <<cache, obj, call, held, removed, evicted, nOps>>

\* _task_runner, line 64: a second of time.sleep passes; nothing wakes it early
SleepTick(t) ==
    /\ thr[t].pc = "sleep"
    /\ thr' = IF thr[t].remaining > 1
              THEN [thr EXCEPT ![t].remaining = @ - 1]
              ELSE [thr EXCEPT ![t].pc = "while", ![t].remaining = 0]
    /\ UNCHANGED <<cache, obj, call, held, removed, evicted, nOps>>

LoopStep(t) ==
    \/ LoopWhile(t)
    \/ LoopWork(t)
    \/ LoopSetValue(t)
    \/ LoopClearException(t)
    \/ LoopSetException(t)
    \/ LoopIfSleep(t)
    \/ SleepTick(t)

CallerStep(c, args, limit) ==
    \/ \E a \in args : CallAcquire(c, a[1], a[2], a[3], limit)
    \/ NewGet(c)
    \/ NewSet(c)
    \/ InitSuper(c)
    \/ InitCheck(c)
    \/ InitStart(c)
    \/ \E h \in held : CallRemove(c, h, limit)
    \/ RmStop(c)
    \/ RmJoin(c)
    \/ RmWait(c)
    \/ RmDel(c)
    \/ CallRemoveAll(c, limit)
    \/ RaList(c)
    \/ RaClear(c)
    \/ Return(c)

\* calls from several threads at once
Next ==
    \/ \E c \in Callers : CallerStep(c, ConcArgs, MaxOps)
    \/ \E t \in 1..Len(thr) : LoopStep(t)

Spec == Init /\ [][Next]_vars

\* calls made one after the other, from one thread
NextSeq ==
    \/ \E c \in SeqCallers : CallerStep(c, SeqArgs, MaxOps)
    \/ \E t \in 1..Len(thr) : LoopStep(t)

SpecSeq == Init /\ [][NextSeq]_vars

\* ================================================================= claims
Returned(c, op) == call[c].pc = "returned" /\ call[c].op = op
ReturnedHandle(c) == Returned(c, "acquire") /\ call[c].raised = None

\* C1: under any interleaving of acquire calls from different threads, at most
\* one loop thread runs for a key at any time, and two overlapping acquire
\* calls for the same key obtain the same handle.
C1_OneLoopPerKey ==
    /\ \A k \in Keys : Cardinality(Loops(k)) <= 1
    /\ \A c, d \in Callers :
         ReturnedHandle(c) /\ ReturnedHandle(d) /\ call[c].key = call[d].key
            => call[c].self = call[d].self

\* C2: in sequential use, an acquire with valid arguments on a key whose
\* handle is registered with its loop alive returns that very object, raises
\* nothing and starts no thread: the loops running for the key stay as many
\* as they were (one, when there was one).
C2_ReacquireReturnsRegistered ==
    \A c \in Callers :
        Returned(c, "acquire") /\ call[c].preLive # NoObject /\ ValidSeconds(call[c].seconds)
            => /\ call[c].raised = None
               /\ call[c].self = call[c].preLive
               /\ ~call[c].created
               /\ Len(thr) = call[c].preThreads
               /\ IsAlive(obj[call[c].self].thread)
               /\ Cardinality(Loops(call[c].key)) = call[c].preLoops

\* a re-acquisition of a live key has returned its handle
C2_Witness ==
    \E c \in Callers :
        /\ ReturnedHandle(c) /\ call[c].preLive # NoObject
        /\ call[c].self = call[c].preLive
        /\ Cardinality(Loops(call[c].key)) = 1

\* C3: while a handle's loop is alive, no later acquire changes its worker or
\* its interval: the arguments of the first acquire govern every later cycle.
C3_FirstWriterWins ==
    [][\A h \in 1..Len(obj) :
          IsAlive(obj[h].thread)
             => /\ obj'[h].worker = obj[h].worker
                /\ obj'[h].seconds = obj[h].seconds]_vars

\* the step of thread t that ends a cycle whose worker call raised (line 61)
FailedCycleEnds(t) == thr[t].pc = "set_exception" /\ thr'[t].pc = "if_sleep"

\* the step of thread t that ends a cycle whose worker call returned (line 58)
SucceededCycleEnds(t) == thr[t].pc = "clear_exception" /\ thr'[t].pc = "if_sleep"

\* C4: when a cycle whose worker call failed has written, lastError is that
\* failure and lastValue is what it was when the worker was called.
C4_FailureKeepsLastValue ==
    [][\A t \in 1..Len(thr) :
          FailedCycleEnds(t)
             => /\ obj'[thr[t].h].exception = thr[t].result
                /\ obj'[thr[t].h].value = thr[t].before]_vars

\* C5: when a cycle whose worker call succeeded has completed its writes,
\* lastValue is the value that call returned and lastError is None.
C5_SuccessPublishesResult ==
    [][\A t \in 1..Len(thr) :
          SucceededCycleEnds(t)
             => /\ obj'[thr[t].h].value = thr[t].result
                /\ obj'[thr[t].h].exception = None]_vars

\* every thread ever started on object h has exited
LoopsExited(h) == \A t \in 1..Len(thr) : thr[t].h = h => ~IsAlive(t)

\* C6: once a remove() of a handle has returned, the handle's lastValue and
\* lastError never change again.
C6_NoWriteAfterRemove ==
    [][\A h \in removed :
          /\ obj'[h].value = obj[h].value
          /\ obj'[h].exception = obj[h].exception]_vars

\* a handle whose loop had published a value has been removed, and the call
\* that removed it is over
C6_Witness ==
    \E h \in removed :
        /\ obj[h].value # None
        /\ LoopsExited(h)
        /\ \A c \in Callers : call[c].pc = "idle"

\* an acquire call that passes a worker and a valid interval
ValidCall(c) == call[c].worker # "absent" /\ ValidSeconds(call[c].seconds)

\* C7: after remove(h) has returned, h.key is absent from the registry (until
\* the key is acquired again), and the next acquire(h.key, w, i) creates a new
\* object, distinct from every removed one, registers it under the key and
\* starts a new loop thread on it, with worker w and interval i.
C7_RemoveEvictsThenFresh ==
    /\ \A k \in evicted : Lookup(cache.items, k) = NoObject
    /\ \A c \in Callers :
         Returned(c, "remove") /\ call[c].raised = None
            => Lookup(cache.items, obj[call[c].self].key) = NoObject
    /\ \A c \in Callers :
         Returned(c, "acquire") /\ call[c].preEvicted /\ ValidCall(c)
            => /\ call[c].raised = None
               /\ call[c].created
               /\ call[c].self \notin removed
               /\ Lookup(cache.items, call[c].key) = call[c].self
               /\ Len(thr) = call[c].preThreads + 1
               /\ obj[call[c].self].thread = Len(thr)
               /\ thr[Len(thr)].h = call[c].self
               /\ IsAlive(Len(thr))
               /\ obj[call[c].self].worker = call[c].worker
               /\ obj[call[c].self].seconds = call[c].seconds

\* the first acquire of a key after the remove of its handle has returned
C7_Witness ==
    \E c \in Callers :
        /\ ReturnedHandle(c) /\ call[c].preEvicted /\ ValidCall(c)
        /\ \E h \in removed : obj[h].key = call[c].key /\ h # call[c].self

\* C8: when remove_all returns, the registry is empty and every loop thread of
\* every object that was registered when it was called has exited; an acquire
\* of a key that has no registry entry creates a new object with a new loop.
C8_RemoveAllEmptiesRegistry ==
    /\ \A c \in Callers :
         Returned(c, "remove_all") /\ call[c].raised = None
            => /\ cache.items = <<>>
               /\ \A h \in call[c].preAll : LoopsExited(h) /\ h \in removed
    /\ \A c \in Callers :
         Returned(c, "acquire") /\ call[c].preEntry = NoObject /\ ValidCall(c)
            => /\ call[c].raised = None
               /\ call[c].created
               /\ call[c].self \notin call[c].preAll \cup removed
               /\ Len(thr) = call[c].preThreads + 1
               /\ thr[Len(thr)].h = call[c].self
               /\ IsAlive(Len(thr))

\* remove_all has returned after stopping two registered handles
C8_Witness ==
    \E c \in Callers :
        /\ Returned(c, "remove_all") /\ call[c].raised = None
        /\ Cardinality(call[c].preAll) = 2
        /\ Len(thr) = 2

\* C9: an acquire with an empty key, a non-positive interval or no worker
\* raises, and has started no thread; every other acquire raises nothing.
C9_ConfigurationErrorsFailFast ==
    \A c \in Callers :
        Returned(c, "acquire")
           => IF call[c].key = "" \/ call[c].seconds <= 0 \/ call[c].worker = "absent"
              THEN call[c].raised # None /\ Len(thr) = call[c].preThreads
              ELSE call[c].raised = None

\* the scheduler runs every loop thread that can take a step, and a sleep ends
Fairness == \A t \in 1..MaxOps : WF_vars(t <= Len(thr) /\ LoopStep(t))

\* calls made one after the other, with the arguments LiveArgs
NextLive ==
    \/ \E c \in SeqCallers : CallerStep(c, LiveArgs, MaxOps)
    \/ \E t \in 1..Len(thr) : LoopStep(t)

SpecLive == Init /\ [][NextLive]_vars /\ Fairness

\* thread t has just called the worker, which returned or raised
Invoked(t) == t <= Len(thr) /\ thr[t].pc \in {"set_value", "set_exception"}

\* thread t has passed line 53 and calls the worker next
Invoking(t) == t <= Len(thr) /\ thr[t].pc = "work"

\* a stop is requested on the handle of thread t
StopRequested(t) == t <= Len(thr) /\ obj[thr[t].h].stop_thread

\* C10: unless a stop is requested on its handle, a loop thread that has called
\* the worker, whether the call returned or raised, gets to call it again; a
\* loop thread exits only when the stop flag is set; and no caller is ever
\* raised a worker's failure.
C10_FailuresNeverEndLoop ==
    /\ \A t \in 1..MaxOps :
         [](Invoked(t) => <>(Invoking(t) \/ StopRequested(t)))
    /\ [][\A t \in 1..Len(thr) :
            thr[t].pc # "done" /\ thr'[t].pc = "done" => obj[thr[t].h].stop_thread]_vars
    /\ [](\A c \in Callers :
            \A w \in {"w1", "w2", None} : call[c].raised \notin WorkerRaises(w))

\* a loop thread calls the worker again after a call that raised
C10_Witness ==
    \E t \in 1..Len(thr) :
        /\ thr[t].pc = "work"
        /\ obj[thr[t].h].exception \in WorkerRaises(obj[thr[t].h].worker)
        /\ ~obj[thr[t].h].stop_thread

\* C11: a stop requested while the loop is in time.sleep interrupts the sleep:
\* with the stop flag set, a sleeping loop thread does not go on sleeping the
\* rest of its interval.
C11_StopInterruptsSleep ==
    [][\A t \in 1..Len(thr) :
          thr[t].pc = "sleep" /\ obj[thr[t].h].stop_thread
             => ~(thr'[t].pc = "sleep" /\ thr'[t].remaining < thr[t].remaining)]_vars

\* a reader of object h sees the value one cycle has just stored (line 57)
\* together with the exception an earlier cycle left (line 58 not yet run)
TornPair(h) ==
    \E t \in 1..Len(thr) :
        /\ thr[t].h = h
        /\ thr[t].pc = "clear_exception"
        /\ obj[h].value = thr[t].result
        /\ obj[h].exception # None

\* C12: at every moment the pair (lastValue, lastError) a reader sees on a
\* handle is the outcome of one single cycle.
C12_ReaderSeesOneCycle == \A h \in 1..Len(obj) : ~TornPair(h)

\* some caller thread takes a step
CallerActs == \E c \in Callers : call'[c] # call[c]

\* C13: no step of an acquire, remove or remove_all call changes lastValue or
\* lastError of any handle; only the steps of loop threads do.
C13_OnlyLoopWrites ==
    [][CallerActs
          => \A h \in 1..Len(obj) :
                /\ obj'[h].value = obj[h].value
                /\ obj'[h].exception = obj[h].exception]_vars

\* no call is in progress
Quiescent == \A c \in Callers : call[c].pc = "idle"

\* some remove() or remove_all() has run to its end
SomeRemoveDone == removed # {} \/ cache.gen > 0

\* the object h is what the registry holds under h's key
Registered(h) == Lookup(cache.items, obj[h].key) = h

\* C14: whatever the interleaving of acquire, remove and remove_all calls of
\* different threads, once a remove or remove_all has returned and no call is
\* in progress, every object that is not the registry's entry for its key has
\* no running loop thread.
C14_NoOrphanedLoop ==
    Quiescent /\ SomeRemoveDone
       => \A h \in 1..Len(obj) : ~Registered(h) => LoopsExited(h)

\* the object h has had a loop thread and every loop thread of it has exited
Stopped(h) == (\E t \in 1..Len(thr) : thr[t].h = h) /\ LoopsExited(h)

\* C16: once the loop thread of a handle has exited, no later step of any
\* acquire, remove or remove_all call, in any interleaving, starts a loop
\* thread for that handle again or clears its stop flag.
C16_StoppedIsTerminal ==
    [][\A h \in 1..Len(obj) :
          Stopped(h)
             => /\ \A t \in 1..Len(thr') : thr'[t].h = h => t <= Len(thr)
                /\ obj[h].stop_thread => obj'[h].stop_thread]_vars

\* thread t makes the step of line 55 (the worker is called)
CallsWorker(t) == thr[t].pc = "work" /\ thr'[t].pc # "work"

\* thread t makes the last write of a cycle (line 58 or line 61)
EndsPublication(t) ==
    thr[t].pc \in {"clear_exception", "set_exception"} /\ thr'[t].pc = "if_sleep"

\* C17: once the stop flag of a handle is set, its loop thread calls the
\* worker at most once more and completes at most one more publication before
\* it exits; a loop thread that is in time.sleep (or back at line 53) while the
\* flag is set exits without calling the worker again.
C17_AtMostOneMoreCycle ==
    [][\A t \in 1..Len(thr) :
          obj[thr[t].h].stop_thread
             => /\ CallsWorker(t) => ~thr[t].lateCall
                /\ EndsPublication(t) => ~thr[t].latePub
                /\ thr[t].pc \in {"sleep", "while"}
                      => thr'[t].pc \in {"sleep", "while", "done"}]_vars

\* the stop flag was set after line 53 had let the loop through: the thread
\* has called the worker once more, published, and is back at line 53
C17_Witness ==
    \E t \in 1..Len(thr) :
        /\ obj[thr[t].h].stop_thread
        /\ thr[t].lateCall /\ thr[t].latePub
        /\ thr[t].pc = "while"

\* _task_runner, line 55: the worker is called and never returns
WorkerHangs(t) ==
    /\ thr[t].pc = "work"
    /\ thr' = [thr EXCEPT ![t].pc = "hung"]
    /\ UNCHANGED <<cache, obj, call, held, removed, evicted, nOps>>

\* a caller thread inside remove() is scheduled
CallerFairness ==
    \A c \in SeqCallers : WF_vars(RmStop(c) \/ RmJoin(c) \/ RmWait(c) \/ RmDel(c))

\* calls made one after the other, with workers that may never return
NextJoin ==
    \/ \E c \in SeqCallers : CallerStep(c, LiveArgs, MaxOps)
    \/ \E t \in 1..Len(thr) : LoopStep(t)
    \/ \E t \in 1..Len(thr) : WorkerHangs(t)

SpecJoin == Init /\ [][NextJoin]_vars /\ Fairness /\ CallerFairness

\* a loop thread of object h is inside a worker call that never returns
Hung(h) == \E t \in 1..Len(thr) : thr[t].h = h /\ thr[t].pc = "hung"

\* caller c has begun remove() on a handle
RemoveBegun(c) == call[c].op = "remove" /\ call[c].pc = "rm_stop"

\* the remove() of caller c has returned and the handle's loop has exited
RemoveDone(c) ==
    /\ Returned(c, "remove")
    /\ call[c].raised = None
    /\ LoopsExited(call[c].self)

\* caller c is blocked in join() on a thread whose worker call never returns
JoinsHung(c) ==
    /\ call[c].pc = "rm_wait"
    /\ thr[call[c].joined].pc = "hung"

\* C15: when threads are scheduled fairly, every remove() returns with the
\* handle's loop thread exited unless the worker call in progress never
\* returns; in that case remove() never returns and the key stays registered.
C15_RemoveReturns ==
    /\ \A c \in SeqCallers : RemoveBegun(c) ~> (RemoveDone(c) \/ Hung(call[c].self))
    /\ [][\A c \in SeqCallers :
             JoinsHung(c) => call'[c].pc = "rm_wait" /\ Registered(call[c].self)']_vars

\* a remove() of a handle with a loop thread has returned
C15_Witness ==
    \E c \in SeqCallers : RemoveDone(c) /\ obj[call[c].self].thread # NoObject

\* the acquire of caller c has ended by raising
AcquireFailed(c) == Returned(c, "acquire") /\ call[c].raised # None

\* caller c makes the step of line 29 and it raises
RaisesAtInit(c) == call[c].pc = "init_super" /\ call'[c].raised # None

\* a failed acquire has left the registry entry of its key and the threads as
\* they were when it began
FailureKeepsRegistry ==
    \A c \in Callers :
        AcquireFailed(c)
           => /\ Lookup(cache.items, call[c].key) = call[c].preEntry
              /\ Len(thr) = call[c].preThreads

\* the raising step leaves every object with a live loop as it was: worker,
\* seconds, value and exception
FailureKeepsLiveHandles ==
    \A c \in Callers :
        RaisesAtInit(c)
           => \A h \in 1..Len(obj) : IsAlive(obj[h].thread) => obj'[h] = obj[h]

\* C18: an acquire that fails with a configuration error registers no new
\* key, starts no thread, and leaves worker, seconds, value and exception of
\* every live handle unchanged.
C18_FailedAcquireChangesNothing ==
    /\ []FailureKeepsRegistry
    /\ [][FailureKeepsLiveHandles]_vars

\* calls made one after the other on one key, two more than MaxOps: enough to
\* acquire, remove, acquire again, remove the first handle again and acquire
\* once more
NextTwice ==
    \/ \E c \in SeqCallers : CallerStep(c, OneArgs, MaxOps + 2)
    \/ \E t \in 1..Len(thr) : LoopStep(t)

SpecTwice == Init /\ [][NextTwice]_vars

\* the step of lines 74-77 of a remove() whose object is not the registry's
\* entry for its key leaves the registry as it is
EvictsOnlyItself ==
    \A c \in Callers :
        call[c].pc = "rm_del" /\ ~Registered(call[c].self) => cache' = cache

\* C19: remove() deletes the registry entry under its handle's key only when
\* that entry is the handle itself, so removing an already removed handle
\* leaves a handle acquired since under the same key registered, and at most
\* one loop thread runs per key.
C19_RemoveEvictsOnlyItself ==
    /\ [][EvictsOnlyItself]_vars
    /\ [](\A k \in Keys : Cardinality(Loops(k)) <= 1)

====
